---- MODULE Spec2Model ----
(***************************************************************************)
(* Website archiver of sap-assistant: the link-graph store                 *)
(* (archiving/website_database_class.py, website_archiver_database.py)     *)
(* and the crawl loop that drives it (archiving/website_archiver.py,       *)
(* archiving/requests_website_archiver.py).                                *)
(*                                                                         *)
(* Tables are sequences of rows; the position of a row is its              *)
(* autoincrement primary key.  The created/updated timestamps are left     *)
(* out.  The database is SQLite, as in the repository's testbenches: a     *)
(* column keeps whatever value is written to it, and a text never equals   *)
(* an integer.                                                             *)
(***************************************************************************)
EXTENDS Integers, Sequences, FiniteSets, TLC

(* ------------------------------ universe ------------------------------ *)

\* profile["base_url"] of the crawled site
base_url == "u0"

\* page URLs of the allowed host
PageUrls == {"u0", "u1"}

\* a page URL no registered link leads to, as the URL a crawl starts from is
UnlinkedUrls == {"u2"}

\* asset URLs
AssetUrls == {"a1"}

\* Python's None
None == "None"

\* asset types / encodings / extensions a caller can pass
AssetTypes == {"image/png"}

\* bound on the number of rows the database holds, all tables together
MaxRows == 4

(* ------------------------- column values ------------------------------ *)

\* an INTEGER column holding an integer, and one holding a text
IntVal(i) == [int |-> i, text |-> ""]
TextVal(s) == [int |-> 0, text |-> s]

VARIABLES
    pages,                  \* "<id>.pages"
    assets,                 \* "<id>.assets"
    page_network,           \* "<id>.page_network"
    asset_network,          \* "<id>.asset_network"
    external_page_network,  \* "<id>.external_page_network"
    raw_pages,              \* "<id>.raw_pages"
    raw_assets,             \* "<id>.raw_assets"
    last,                   \* the last store call: operation, arguments, result
    pc,                     \* where archive_website stands
    cache,                  \* self._cache: current_url, last_url, current_index, last_milestone
    next_url,               \* next_url of archive_website
    failed,                 \* self.failed
    depth,                  \* nested _handle_next_page calls
    handled,                \* per URL, the calls of _handle_next_page by the loop
    dump_folder,            \* the files of self.dump_folder
    profile,                \* the archiver profile
    website,                \* the "website" table
    generated,              \* the website ids generate_archiving_tables ran for
    website_entry,          \* id of self.website_entry, 0 before construction
    log,                    \* the "Discarded ..." line of the last processed page
    process,                \* the archiver processes so far (history)
    classified,             \* the link last bucketed, and its bucket
    web,                    \* the crawled site: what its pages link to
    request                 \* the _handle_next_page call that has just returned

store == <<pages, assets, page_network, asset_network,
           external_page_network, raw_pages, raw_assets>>

registry == <<website, generated, website_entry>>

observed == <<log, process>>

engine == <<pc, cache, next_url, failed, depth, handled, dump_folder, profile,
            website, generated, website_entry, log, process, classified, web,
            request>>

vars == <<pages, assets, page_network, asset_network,
          external_page_network, raw_pages, raw_assets, last,
          pc, cache, next_url, failed, depth, handled, dump_folder, profile,
          website, generated, website_entry, log, process, classified, web,
          request>>

(* ------------------------------ rows ---------------------------------- *)

Page(url, inactive) == [page_url |-> url, inactive |-> inactive]

Asset(url, type, inactive) ==
    [asset_url |-> url, asset_type |-> type, inactive |-> inactive]

PageLink(source, target, followed, inactive) ==
    [source_page_url |-> source, target_page_url |-> target,
     followed |-> followed, inactive |-> inactive]

AssetLink(source, target, inactive) ==
    [source_page_url |-> source, target_asset_url |-> target,
     inactive |-> inactive]

ExternalPageLink(source, target) ==
    [source_page_url |-> source, target_page_url |-> target]

RawPage(page_id, raw, path, inactive) ==
    [page_id |-> page_id, raw |-> raw, path |-> path, inactive |-> inactive]

RawAsset(asset_id, raw, encoding, extension, path, inactive) ==
    [asset_id |-> asset_id, raw |-> raw, encoding |-> encoding,
     extension |-> extension, path |-> path, inactive |-> inactive]

(* ----------------------------- queries -------------------------------- *)

\* ids of the rows of a table that satisfy a filter
PageIds(tab, url) == {i \in DOMAIN tab : tab[i].page_url = url}
AssetIds(tab, url) == {i \in DOMAIN tab : tab[i].asset_url = url}

PageLinkIds(net, source, target) ==
    {i \in DOMAIN net : net[i].source_page_url = source
                        /\ net[i].target_page_url = target}

AssetLinkIds(net, source, target) ==
    {i \in DOMAIN net : net[i].source_page_url = source
                        /\ net[i].target_asset_url = target}

\* query(...).first(): some row of the result, 0 when the result is empty
First(ids) == IF ids = {} THEN 0 ELSE CHOOSE i \in ids : \A j \in ids : i <= j

\* the database: its tables
Database ==
    [pages |-> pages, assets |-> assets, page_network |-> page_network,
     asset_network |-> asset_network,
     external_page_network |-> external_page_network,
     raw_pages |-> raw_pages, raw_assets |-> raw_assets]

\* the tables after a call
Commit(db) ==
    /\ pages' = db.pages
    /\ assets' = db.assets
    /\ page_network' = db.page_network
    /\ asset_network' = db.asset_network
    /\ external_page_network' = db.external_page_network
    /\ raw_pages' = db.raw_pages
    /\ raw_assets' = db.raw_assets

\* number of rows in the database
Rows(db) ==
    Len(db.pages) + Len(db.assets) + Len(db.page_network)
    + Len(db.asset_network) + Len(db.external_page_network)
    + Len(db.raw_pages) + Len(db.raw_assets)

\* the database has room for the rows a call leaves behind
Fits(db) == Rows(db) <= MaxRows

\* the record of the last store call: its arguments (snapshot is the content
\* and path passed), what get_next_url returned (next_url) or register_link
\* returned (created), the ids of the PageLink rows the call set to followed
\* (flipped), the targets it skipped as visited (collapsed), whether it raised,
\* the (source, target) pairs the reconciliation runs in a row ending with the
\* call have transferred (transferred), and whether the call before it was the
\* same call with the same arguments
Call(op, url, source, target, kind, snapshot, result, created, flipped, collapsed) ==
    [op |-> op, url |-> url, source |-> source, target |-> target,
     kind |-> kind, snapshot |-> snapshot, next_url |-> result,
     created |-> created, flipped |-> flipped, collapsed |-> collapsed,
     raised |-> FALSE, transferred |-> {},
     repeated |-> /\ last.op = op /\ last.url = url /\ last.source = source
                  /\ last.target = target /\ last.kind = kind
                  /\ last.snapshot = snapshot]

NoSnapshot == <<None, None>>

NoCall ==
    [op |-> "init", url |-> None, source |-> None, target |-> None,
     kind |-> None, snapshot |-> NoSnapshot, next_url |-> None,
     created |-> FALSE, flipped |-> {}, collapsed |-> {}, raised |-> FALSE,
     transferred |-> {}, repeated |-> FALSE]

(* --------------------------- register_page ---------------------------- *)

\* variant: a row is inserted without looking for an existing one
UpsertPageAlwaysInsert(tab, url) == Append(tab, Page(url, ""))

\* the Page upsert: a new row, or the existing one with its tombstone cleared
UpsertPage(tab, url) ==
    LET id == First(PageIds(tab, url))
    IN  IF id = 0 THEN Append(tab, Page(url, ""))
        ELSE IF tab[id].inactive # "" THEN [tab EXCEPT ![id].inactive = ""]
        ELSE tab

\* the value written to raw_pages.page_id for a new snapshot of a page
NewRawPageId(page_url, page_id) == TextVal(page_url)

\* variant: the latest snapshot is overwritten in place
AppendRawPageOverwrite(tab, page_url, page_id, content, path) ==
    IF tab = <<>>
    THEN <<RawPage(TextVal(page_url), content, path, "")>>
    ELSE [tab EXCEPT ![Len(tab)] = RawPage(TextVal(page_url), content, path, "")]

\* the raw rows found for a page are tombstoned, then the snapshot is appended
AppendRawPage(tab, page_url, page_id, content, path) ==
    Append([i \in DOMAIN tab |->
               IF tab[i].page_id = IntVal(page_id) /\ tab[i].inactive = ""
               THEN [tab[i] EXCEPT !.inactive = "x"]
               ELSE tab[i]],
           RawPage(NewRawPageId(page_url, page_id), content, path, ""))

register_page(db, url, content, path) ==
    LET pages1 == UpsertPage(db.pages, url)
        page_id == First(PageIds(pages1, url))
    IN  [db EXCEPT
            !.pages = pages1,
            !.raw_pages = IF content # None \/ path # None
                          THEN AppendRawPage(@, url, page_id, content, path)
                          ELSE @]

(* --------------------------- register_asset --------------------------- *)

\* the Asset upsert: a new row, or the existing one with its tombstone cleared
UpsertAsset(tab, url, type) ==
    LET id == First(AssetIds(tab, url))
    IN  IF id = 0 THEN Append(tab, Asset(url, type, ""))
        ELSE IF tab[id].inactive # "" THEN [tab EXCEPT ![id].inactive = ""]
        ELSE tab

\* the raw rows of the asset are tombstoned, then the snapshot is appended;
\* encoding and extension are stored only together with a content
AppendRawAsset(tab, asset_id, content, encoding, extension, path) ==
    Append([i \in DOMAIN tab |->
               IF tab[i].asset_id = IntVal(asset_id) /\ tab[i].inactive = ""
               THEN [tab[i] EXCEPT !.inactive = "x"]
               ELSE tab[i]],
           RawAsset(IntVal(asset_id), content,
                    IF content # None THEN encoding ELSE None,
                    IF content # None THEN extension ELSE None,
                    path, ""))

\* the source page of an asset link is reactivated
ReactivateSourcePage(tab, source) ==
    LET id == First(PageIds(tab, source))
    IN  IF tab[id].inactive # "" THEN [tab EXCEPT ![id].inactive = ""] ELSE tab

\* the AssetLink upsert at the end of register_asset
UpsertAssetLink(net, source, target) ==
    LET id == First(AssetLinkIds(net, source, target))
    IN  IF id = 0 THEN Append(net, AssetLink(source, target, ""))
        ELSE IF net[id].inactive # "" THEN [net EXCEPT ![id].inactive = ""]
        ELSE net

\* a source_url without a Page row raises AttributeError on source_page.inactive
RegisterAssetRaises(db, source) == source # None /\ PageIds(db.pages, source) = {}

\* register_asset commits the Asset upsert first; the snapshot and the link
\* are committed together at the end, and not at all when the call raises
register_asset(db, source, url, type, content, encoding, extension, path) ==
    LET assets1 == UpsertAsset(db.assets, url, type)
        asset_id == First(AssetIds(assets1, url))
    IN  IF RegisterAssetRaises(db, source)
        THEN [db EXCEPT !.assets = assets1]
        ELSE [db EXCEPT
                !.assets = assets1,
                !.raw_assets = IF content # None \/ path # None
                               THEN AppendRawAsset(@, asset_id, content,
                                                   encoding, extension, path)
                               ELSE @,
                !.pages = IF source = None THEN @
                          ELSE ReactivateSourcePage(@, source),
                !.asset_network = IF source = None THEN @
                                  ELSE UpsertAssetLink(@, source, url)]

(* --------------------------- register_link ---------------------------- *)

\* variant: reactivation also puts the edge back on the frontier
ReactivateLinkResetsFollowed(row) ==
    IF "followed" \in DOMAIN row
    THEN [row EXCEPT !.inactive = "", !.followed = FALSE]
    ELSE [row EXCEPT !.inactive = ""]

\* an existing edge is reactivated
ReactivateLink(row) == [row EXCEPT !.inactive = ""]

\* a new page edge
NewPageLink(source, target) == PageLink(source, target, FALSE, "")

\* the row register_link finds for (source, target), 0 when there is none
FindLink(db, source, target, kind) ==
    IF kind = "page" THEN First(PageLinkIds(db.page_network, source, target))
    ELSE First(AssetLinkIds(db.asset_network, source, target))

\* variant: the result as the docstring words it ("already registered")
RegisterLinkResultInverted(db, source, target, kind) ==
    IF kind = "page" THEN First(PageLinkIds(db.page_network, source, target)) # 0
    ELSE First(AssetLinkIds(db.asset_network, source, target)) # 0

\* the value register_link returns: link is None
RegisterLinkResult(db, source, target, kind) ==
    FindLink(db, source, target, kind) = 0

register_link(db, source, target, kind) ==
    LET id == FindLink(db, source, target, kind)
    IN  IF kind = "page"
        THEN [db EXCEPT !.page_network =
                 IF id = 0 THEN Append(@, NewPageLink(source, target))
                 ELSE [@ EXCEPT ![id] = ReactivateLink(@)]]
        ELSE [db EXCEPT !.asset_network =
                 IF id = 0 THEN Append(@, AssetLink(source, target, ""))
                 ELSE [@ EXCEPT ![id] = ReactivateLink(@)]]

(* ---------------------------- get_next_url ---------------------------- *)

\* variant: only the first not-yet-followed edge to the target is set
MarkFollowedFirst(net, target) ==
    LET ids == {i \in DOMAIN net : ~net[i].followed /\ net[i].target_page_url = target}
    IN  [i \in DOMAIN net |->
            IF i = First(ids) THEN [net[i] EXCEPT !.followed = TRUE] ELSE net[i]]

\* every not-yet-followed edge to a target is set to followed
MarkFollowed(net, target) ==
    [i \in DOMAIN net |->
        IF ~net[i].followed /\ net[i].target_page_url = target
        THEN [net[i] EXCEPT !.followed = TRUE]
        ELSE net[i]]

\* variant: the visited check is left out
AlreadyVisitedNever(net, target) == FALSE

\* some followed edge leads to the target
AlreadyVisited(net, target) ==
    \E i \in DOMAIN net : net[i].followed /\ net[i].target_page_url = target

\* the rows the query for followed == False can return first; the query has
\* no ORDER BY, so any of them
NextLinkCandidates(net) == {i \in DOMAIN net : ~net[i].followed}

\* variant: the loop is left after the first visited target
NextLinkOutcomesStopAtVisited(net, collapsed) ==
    IF NextLinkCandidates(net) = {}
    THEN {[net |-> net, next_url |-> None, collapsed |-> collapsed]}
    ELSE {LET target == net[i].target_page_url
          IN  IF AlreadyVisited(net, target)
              THEN [net |-> MarkFollowed(net, target), next_url |-> None,
                    collapsed |-> collapsed \cup {target}]
              ELSE [net |-> net, next_url |-> target, collapsed |-> collapsed]
          : i \in NextLinkCandidates(net)}

\* the selection loop: what it can leave in the table and return
RECURSIVE NextLinkOutcomes(_, _)
NextLinkOutcomes(net, collapsed) ==
    IF NextLinkCandidates(net) = {}
    THEN {[net |-> net, next_url |-> None, collapsed |-> collapsed]}
    ELSE UNION {LET target == net[i].target_page_url
                IN  IF AlreadyVisited(net, target)
                    THEN NextLinkOutcomes(MarkFollowed(net, target),
                                          collapsed \cup {target})
                    ELSE {[net |-> net, next_url |-> target,
                           collapsed |-> collapsed]}
                : i \in NextLinkCandidates(net)}

\* variant: the edges to the current URL are not set to followed
GetNextUrlWithoutMarking(net, page_url) == NextLinkOutcomes(net, {})

\* get_next_url of the store: the table and the result it can produce
get_next_url(net, page_url) ==
    NextLinkOutcomes(MarkFollowed(net, page_url), {})

Flipped(old, new) == {i \in DOMAIN old : ~old[i].followed /\ new[i].followed}

(* ------------------------- temporary links ---------------------------- *)

\* a URL of another host
ExternalUrls == {"x1"}

\* the target lists register_temporary_page_links is called with
TemporaryTargets ==
    {<<t>> : t \in PageUrls \cup ExternalUrls}
    \cup {<<t, t>> : t \in PageUrls}

RECURSIVE AppendTemporaryLinks(_, _, _)
AppendTemporaryLinks(tab, source, targets) ==
    IF targets = <<>> THEN tab
    ELSE AppendTemporaryLinks(Append(tab, ExternalPageLink(source, Head(targets))),
                              source, Tail(targets))

\* a source_url without a Page row raises AttributeError before any row is added
register_temporary_page_links(db, source, targets) ==
    IF PageIds(db.pages, source) = {} THEN db
    ELSE [db EXCEPT !.external_page_network =
             AppendTemporaryLinks(@, source, targets)]

\* a temporary link whose target is the URL of a Page row
IsInternal(tab, row) == PageIds(tab, row.target_page_url) # {}

\* variant: a link is created without looking for an existing one
RelinkOneAlwaysCreate(net, row) ==
    Append(net, PageLink(row.source_page_url, row.target_page_url, FALSE, ""))

\* the internal link made of one temporary link: reactivated or created
RelinkOne(net, row) ==
    LET id == First(PageLinkIds(net, row.source_page_url, row.target_page_url))
    IN  IF id # 0 THEN [net EXCEPT ![id].inactive = ""]
        ELSE Append(net, PageLink(row.source_page_url, row.target_page_url,
                                  FALSE, ""))

RECURSIVE RelinkAll(_, _, _)
RelinkAll(net, tab, temp) ==
    IF temp = <<>> THEN net
    ELSE RelinkAll(IF IsInternal(tab, Head(temp)) THEN RelinkOne(net, Head(temp))
                   ELSE net,
                   tab, Tail(temp))

\* variant: one transferred temporary link is deleted per run
RemoveRelinkedFirstOnly(tab, temp) ==
    LET ids == {i \in DOMAIN temp : IsInternal(tab, temp[i])}
    IN  IF ids = {} THEN temp
        ELSE [i \in 1..(Len(temp) - 1) |->
                 IF i < First(ids) THEN temp[i] ELSE temp[i + 1]]

\* the (source, target) pairs of the temporary links a run transfers
Transferred(tab, temp) ==
    {<<temp[i].source_page_url, temp[i].target_page_url>> :
        i \in {j \in DOMAIN temp : IsInternal(tab, temp[j])}}

\* the transferred temporary links are deleted
RemoveRelinked(tab, temp) == SelectSeq(temp, LAMBDA row : ~IsInternal(tab, row))

relink_temporary_links(db) ==
    [db EXCEPT
        !.page_network = RelinkAll(@, db.pages, db.external_page_network),
        !.external_page_network = RemoveRelinked(db.pages, @)]

(* ------------------------------ engine -------------------------------- *)

\* self.failed before anything has assigned it: no set of URLs
Unset == {"<no attribute>"}

\* profile["milestones"]: pages between two periodic state dumps
milestones == 2

\* nested _handle_next_page calls the interpreter allows
RecursionLimit == 2

\* the files of the dump folder
LatestFile == [kind |-> "latest", index |-> 0]
MilestoneFile(n) == [kind |-> "MILESTONE", index |-> n]
ExceptionFile == [kind |-> "EXCEPTION", index |-> 0]
FinishedFile(n) == [kind |-> "MILESTONE_FINISHED", index |-> n]

\* the cache of a new archiver
NewCache ==
    [current_url |-> None, last_url |-> None, current_index |-> 0,
     last_milestone |-> 0]

\* list(self.failed): the URLs of the set, each once, in the order the
\* interpreter iterates the set
ListOf(S) ==
    CHOOSE q \in [1..Cardinality(S) -> S] :
        \A i, j \in 1..Cardinality(S) : q[i] = q[j] => i = j

\* set(dump_data.get("failed", []))
SetOf(q) == {q[i] : i \in DOMAIN q}

\* dict.update: the keys of the second dictionary replace those of the first
Update(c, u) ==
    [k \in DOMAIN c \cup DOMAIN u |-> IF k \in DOMAIN u THEN u[k] ELSE c[k]]

\* the cache after RequestsWebsiteArchiver.__init__: a key the cache does not
\* hold gets its default
CacheDefaults(c) == Update(NewCache, c)

\* json_utility.save and json_utility.load: a structure of dictionaries,
\* lists, strings, numbers and None written into a file is the structure
\* read from it
json_save(content) == content

json_load(file) == file

\* variant: the dump's cache is loaded, its failed list is not
LoadStateDumpCacheOnly(c, d) ==
    [cache |-> Update(c, json_load(d).cache), failed |-> {}]

\* load_state_dump on an archiver whose cache is c
load_state_dump(c, d) ==
    LET dump_data == json_load(d)
    IN  [cache |-> Update(c, dump_data.cache), failed |-> SetOf(dump_data.failed)]

\* create_state_dump: the file is written or overwritten
WriteDump(folder, file, c, f, reason) ==
    LET content == json_save([cache |-> c, failed |-> ListOf(f), reason |-> reason])
    IN  {d \in folder : d.file # file}
        \cup {[file |-> file, cache |-> content.cache, failed |-> content.failed,
                reason |-> content.reason]}

\* os.rename of latest.json, when it exists
RotateLatest(folder, n) ==
    IF \E d \in folder : d.file = LatestFile
    THEN {d \in folder : d.file \notin {LatestFile, MilestoneFile(n)}}
         \cup {[d EXCEPT !.file = MilestoneFile(n)] : d \in {e \in folder : e.file = LatestFile}}
    ELSE folder

\* the loop's milestone test
MilestoneDue(c) == c.current_index % milestones = 0 /\ c.current_index # 0

\* what one request of the session can end in: a status, or an exception.
\* MissingSchema is not among them: it depends on the URL alone and is
\* raised for the URLs without a scheme (SchemelessUrls, below);
\* Timeout stands for the exceptions _request_page has no handler for.
AttemptResults ==
    {"200", "non200", "SSLError", "TooManyRedirects", "ConnectionError", "Timeout"}

IsStatus(r) == r \in {"200", "non200"}

\* the results of the successive requests of one _request_page call
Scripts == [1..4 -> AttemptResults]

Responded(r, used) == [response |-> r, exc |-> None, used |-> used]
Raised(r, used) == [response |-> None, exc |-> r, used |-> used]

\* _retry_with_new_identity, its first request being number k of the script
RetryWithNewIdentity(s, k, proxies) ==
    IF ~IsStatus(s[k]) THEN Raised(s[k], k)
    ELSE IF s[k] = "200" \/ proxies = "random"
    THEN IF IsStatus(s[k + 1]) THEN Responded(s[k + 1], k + 1)
         ELSE Raised(s[k + 1], k + 1)
    ELSE Responded(s[k], k)

\* the try block of _request_page
TryRequest(s, proxies) ==
    IF s[1] = "200" THEN Responded(s[1], 1)
    ELSE IF s[1] = "non200" THEN RetryWithNewIdentity(s, 2, proxies)
    ELSE Raised(s[1], 1)

\* _request_page up to its handlers: the response it holds, whether the URL
\* is to be added to the failed set, whether the connection error handler
\* runs, and the exception that leaves it
RequestPage(s, proxies) ==
    LET t == TryRequest(s, proxies)
        n == s[t.used + 1]
        o == [response |-> None, fail |-> FALSE, outage |-> FALSE,
              raised |-> None, requests |-> t.used,
              attempts |-> SubSeq(s, 1, t.used)]
    IN  IF t.exc = None THEN [o EXCEPT !.response = t.response]
        ELSE IF t.exc = "SSLError"
        THEN IF IsStatus(n)
             THEN [o EXCEPT !.response = n, !.requests = t.used + 1,
                            !.attempts = SubSeq(s, 1, t.used + 1)]
             ELSE [o EXCEPT !.raised = n, !.requests = t.used + 1,
                            !.attempts = SubSeq(s, 1, t.used + 1)]
        ELSE IF t.exc = "TooManyRedirects" THEN [o EXCEPT !.fail = TRUE]
        ELSE IF t.exc = "ConnectionError" THEN [o EXCEPT !.outage = TRUE]
        ELSE [o EXCEPT !.raised = t.exc]

RequestPageOutcomes(proxies) == {RequestPage(s, proxies) : s \in Scripts}

\* the orders in which a set can be iterated
Orderings(S) ==
    {q \in [1..Cardinality(S) -> S] : \A i, j \in 1..Cardinality(S) : q[i] = q[j] => i = j}

\* what get_asset_data can end in: the asset's data, an exception the page
\* handler catches, or one it does not
AssetResults == {"ok", "MissingSchema", "ConnectionError", "Timeout"}

\* a URL of another host whose name holds the name of the base URL's host
ForeignUrls == {"y1"}

\* the URLs the crawl can come to fetch
FetchUrls == PageUrls \cup ForeignUrls

\* urlparse(url).netloc, as its sequence of labels
Host(url) ==
    IF url \in ExternalUrls THEN <<"other", "test">>
    ELSE IF url \in ForeignUrls THEN <<"ex", "test", "evil", "org">>
    ELSE <<"ex", "test">>

\* Python's  base in netloc  on strings: base occurs somewhere in netloc
Occurs(base, netloc) ==
    \E k \in 0..(Len(netloc) - Len(base)) :
        \A i \in 1..Len(base) : netloc[k + i] = base[i]

\* self.allowed_bases: the profile's list, by default the host of base_url
allowed_bases ==
    IF profile.allowed_bases = None THEN {Host(profile.base_url)}
    ELSE profile.allowed_bases

\* variant: every link with a host passes
AllowedAnyHost(link) == Host(link) # <<>>

\* the host check of a page link against allowed_bases
Allowed(link) == \E base \in allowed_bases : Occurs(base, Host(link))

\* the links of a page
Links(p, a) == [pages |-> p, assets |-> a]

\* a site whose pages can hold any links to the targets at each fetch, and
\* whose server can answer a request in any way
AnyWeb(targets) ==
    [targets |-> targets, fixed |-> FALSE, steady |-> FALSE,
     pages |-> [u \in PageUrls |-> Links({}, {})]]

\* a site whose pages do not change and whose server answers every request
\* with status 200
FixedWeb(content) ==
    [targets |-> PageUrls \cup ExternalUrls, fixed |-> TRUE, steady |-> TRUE,
     pages |-> content]

\* a site whose pages do not change and whose server can answer a request in
\* any way
LinkedWeb(content) == [FixedWeb(content) EXCEPT !.steady = FALSE]

\* what the requests of one _request_page call can end in on the site
Responses(proxies) ==
    IF web.steady THEN {RequestPage([k \in 1..4 |-> "200"], proxies)}
    ELSE RequestPageOutcomes(proxies)

\* the links html_content.xpath can find in the response for a URL
PageLinkSets(url) ==
    IF web.fixed THEN {web.pages[url].pages} ELSE SUBSET web.targets

AssetLinkSets(url) ==
    IF web.fixed THEN {web.pages[url].assets} ELSE SUBSET AssetUrls

\* what get_asset_data can end in for each asset of the site
AssetAnswers ==
    IF web.steady THEN {[a \in AssetUrls |-> "ok"]}
    ELSE [AssetUrls -> AssetResults]

\* the page links the loop counts as already registered (discarded)
RECURSIVE CountDiscarded(_, _, _)
CountDiscarded(db, source, links) ==
    IF links = <<>> THEN 0
    ELSE IF ~Allowed(Head(links)) THEN CountDiscarded(db, source, Tail(links))
    ELSE (IF RegisterLinkResult(db, source, Head(links), "page") THEN 0 ELSE 1)
         + CountDiscarded(register_link(db, source, Head(links), "page"),
                          source, Tail(links))

\* the page links the loop counts as external
CountDiscardedExternal(links) ==
    Cardinality({i \in DOMAIN links : ~Allowed(links[i])})

\* the asset loop of _handle_next_page
RECURSIVE RegisterAssets(_, _, _, _)
RegisterAssets(db, source, links, results) ==
    IF links = <<>> THEN [db |-> db, raised |-> None]
    ELSE LET link == Head(links)
             db1 == register_link(db, source, link, "asset")
         IN  IF results[link] = "ok"
             THEN RegisterAssets(register_asset(db1, source, link, "image/png",
                                                "c1", "utf-8", ".png", None),
                                 source, Tail(links), results)
             ELSE IF results[link] \in {"MissingSchema", "ConnectionError"}
             THEN RegisterAssets(db1, source, Tail(links), results)
             ELSE [db |-> db1, raised |-> results[link]]

\* the page-link loop of _handle_next_page
RECURSIVE RegisterPageLinks(_, _, _)
RegisterPageLinks(db, source, links) ==
    IF links = <<>> THEN db
    ELSE RegisterPageLinks(IF Allowed(Head(links))
                           THEN register_link(db, source, Head(links), "page")
                           ELSE db,
                           source, Tail(links))

\* the processing of a status-200 response
ProcessResponse(db, url, content, target_assets, asset_results, target_pages) ==
    LET db1 == register_page(db, url, content, None)
        a == RegisterAssets(db1, url, target_assets, asset_results)
    IN  IF a.raised # None THEN a
        ELSE [db |-> RegisterPageLinks(a.db, url, target_pages), raised |-> None]

\* the except clause of archive_website: the exception dump, then the raise;
\* create_state_dump itself raises AttributeError while self.failed is unset
Fatal(folder, c) ==
    /\ pc' = "raised"
    /\ cache' = c
    /\ dump_folder' = IF failed = Unset THEN folder
                      ELSE WriteDump(folder, ExceptionFile, c, failed, "exception")
    /\ depth' = 0
    /\ UNCHANGED <<failed, next_url, log, process>>

\* no _handle_next_page call has just returned
NoRequest ==
    [url |-> None, attempts |-> <<>>, response |-> None, fail |-> FALSE,
     outage |-> FALSE, raised |-> None, probe |-> None, fetched |-> <<>>]

\* variant: every response is processed, whatever its status
ProcessableAnyResponse(response) == response # None

\* the test of the response before it is processed
Processable(response) == response # None /\ response = "200"

\* the state dump of the connection error handler
ConnectionErrorDump(folder, c, f) ==
    WriteDump(folder, ExceptionFile, c, f, "exception")

\* the get_asset_data calls of the asset loop: the link, how the call ended
\* and whether an Asset row of the URL was there already
RECURSIVE AssetsFetched(_, _, _)
AssetsFetched(db, links, results) ==
    IF links = <<>> THEN <<>>
    ELSE LET link == Head(links)
             call == [link |-> link, result |-> results[link],
                      known |-> \E i \in DOMAIN db.assets :
                                   /\ db.assets[i].asset_url = link
                                   /\ db.assets[i].inactive = ""]
         IN  IF results[link] \in {"ok", "MissingSchema", "ConnectionError"}
             THEN <<call>> \o AssetsFetched(db, Tail(links), results)
             ELSE <<call>>

\* a link target stored without a scheme, "//ex.test/u1"
SchemelessUrls == {"s1"}

\* fix_link(current_url, link) for a link with a host: a link without a
\* scheme gets the scheme of current_url; without a current URL the lookup
\* in the empty self.schemas raises KeyError
fix_link(current_url, link) ==
    IF link \notin SchemelessUrls THEN [url |-> link, raised |-> None]
    ELSE IF current_url = None THEN [url |-> link, raised |-> "KeyError"]
    ELSE [url |-> "u1", raised |-> None]

\* the MissingSchema handler of _request_page: the request of the repaired
\* URL is made outside the try block, its status is returned as it is and
\* its exception leaves the method
RepairedRequest(r) ==
    [response |-> IF IsStatus(r) THEN r ELSE None, fail |-> FALSE,
     outage |-> FALSE, raised |-> IF IsStatus(r) THEN None ELSE r,
     requests |-> 2, attempts |-> <<"MissingSchema", r>>]

\* what the requests of one _request_page call can end in for a URL
PageResponses(next, proxies) ==
    IF next \in SchemelessUrls
    THEN {RepairedRequest(r) : r \in IF web.steady THEN {"200"} ELSE AttemptResults}
    ELSE Responses(proxies)

\* _handle_next_page from the point where self._cache["current_url"] is the
\* URL that is requested, url, with the outcomes the request can have
HandleRequested(url, folder, c0, outcomes) ==
    LET c == [c0 EXCEPT !.current_url = url]
    IN  \E o \in outcomes :
           LET call == [NoRequest EXCEPT !.url = url, !.attempts = o.attempts,
                                         !.response = o.response, !.fail = o.fail,
                                         !.outage = o.outage, !.raised = o.raised]
           IN
           IF o.raised # None
           THEN Fatal(folder, c) /\ request' = call /\ UNCHANGED store
           ELSE IF o.fail
           THEN IF failed = Unset
                THEN Fatal(folder, c) /\ request' = call /\ UNCHANGED store
                ELSE /\ failed' = failed \cup {url}
                     /\ cache' = c
                     /\ pc' = "advance"
                     /\ depth' = 0
                     /\ dump_folder' = folder
                     /\ request' = call
                     /\ UNCHANGED <<store, next_url, log, process>>
           ELSE IF o.outage
           THEN IF failed = Unset
                THEN Fatal(folder, c) /\ request' = call /\ UNCHANGED store
                ELSE LET dumped == ConnectionErrorDump(folder, c, failed)
                     IN  \E check_connection \in BOOLEAN :
                            IF check_connection
                            THEN /\ failed' = failed \cup {url}
                                 /\ cache' = c
                                 /\ pc' = "advance"
                                 /\ depth' = 0
                                 /\ dump_folder' = dumped
                                 /\ request' = [call EXCEPT !.probe = "up"]
                                 /\ UNCHANGED <<store, next_url, log, process>>
                            ELSE IF depth = RecursionLimit
                            THEN /\ Fatal(dumped, c)
                                 /\ request' = [call EXCEPT !.probe = "down"]
                                 /\ UNCHANGED store
                            ELSE /\ depth' = depth + 1
                                 /\ cache' = c
                                 /\ pc' = "loop"
                                 /\ dump_folder' = dumped
                                 /\ request' = [call EXCEPT !.probe = "down"]
                                 /\ UNCHANGED <<store, failed, next_url, log, process>>
           ELSE IF Processable(o.response)
           THEN \E pagelinks \in PageLinkSets(url),
                   assetlinks \in AssetLinkSets(url) :
                  \E target_pages \in Orderings(pagelinks),
                     target_assets \in Orderings(assetlinks),
                     asset_results \in AssetAnswers :
                     LET r == ProcessResponse(Database, url, "c1", target_assets,
                                              asset_results, target_pages)
                     IN  /\ Commit(r.db)
                         /\ request' = [call EXCEPT !.fetched =
                                           AssetsFetched(Database, target_assets,
                                                         asset_results)]
                         /\ IF r.raised # None
                            THEN Fatal(folder, c)
                            ELSE /\ cache' = [c EXCEPT !.current_index = @ + 1]
                                 /\ pc' = "advance"
                                 /\ depth' = 0
                                 /\ dump_folder' = folder
                                 /\ log' = [url |-> url,
                                            discarded |->
                                                CountDiscarded(Database, url, target_pages),
                                            discarded_external |->
                                                CountDiscardedExternal(target_pages)]
                                 /\ process' = [process EXCEPT
                                                    !.here = @ \cup {url},
                                                    !.interrupted = @ \ {url},
                                                    !.resumed =
                                                        @ \cup ({url} \cap process.interrupted)]
                                 /\ UNCHANGED <<failed, next_url>>
           ELSE /\ cache' = c
                /\ pc' = "advance"
                /\ depth' = 0
                /\ dump_folder' = folder
                /\ request' = call
                /\ UNCHANGED <<store, failed, next_url, log, process>>

\* _handle_next_page(next), called with the dump folder and cache as they
\* are after the loop's milestone step; a URL without a scheme is repaired
\* with last_url before it is requested again
HandleNextPage(next, folder, c0) ==
    LET fixed == fix_link(c0.last_url, next)
    IN  IF fixed.raised # None
        THEN /\ Fatal(folder, [c0 EXCEPT !.current_url = next])
             /\ request' = [NoRequest EXCEPT !.url = next,
                                             !.attempts = <<"MissingSchema">>,
                                             !.raised = fixed.raised]
             /\ UNCHANGED store
        ELSE HandleRequested(fixed.url, folder, c0,
                             PageResponses(next, profile.proxies))

\* archive_website, its first get_next_url: the base URL while no current
\* URL is cached
ArchiveStart ==
    /\ pc = "init"
    /\ IF cache.current_url = None
       THEN /\ next_url' = base_url
            /\ pc' = "loop"
            /\ UNCHANGED <<store, last>>
       ELSE \E o \in get_next_url(page_network, cache.current_url) :
               /\ Commit([Database EXCEPT !.page_network = o.net])
               /\ next_url' = o.next_url
               /\ pc' = IF o.next_url = None THEN "done" ELSE "loop"
               /\ last' = Call("get_next_url", cache.current_url, None, None,
                               "page", NoSnapshot, o.next_url, FALSE,
                               Flipped(page_network, o.net), o.collapsed)
    /\ UNCHANGED <<cache, failed, depth, handled, dump_folder, profile>>
    /\ UNCHANGED <<registry, observed, classified, web, request>>

\* one pass of the loop body up to the return of _handle_next_page
ArchiveNextPage ==
    /\ pc = "loop"
    /\ depth = 0
    /\ IF MilestoneDue(cache)
       THEN LET rotated == RotateLatest(dump_folder, cache.last_milestone)
                c == [cache EXCEPT !.last_milestone = cache.current_index]
            IN  IF failed = Unset
                THEN Fatal(rotated, c) /\ UNCHANGED <<store, handled, request>>
                ELSE /\ HandleNextPage(next_url,
                                       WriteDump(rotated, LatestFile, c, failed,
                                                 "archiving_milestone"),
                                       c)
                     /\ handled' = [handled EXCEPT ![next_url] = @ + 1]
       ELSE /\ HandleNextPage(next_url, dump_folder, cache)
            /\ handled' = [handled EXCEPT ![next_url] = @ + 1]
    /\ UNCHANGED <<last, profile, registry, classified, web>>

\* the nested _handle_next_page(current_url) of the connection error handler
RetryAfterOutage ==
    /\ pc = "loop"
    /\ depth > 0
    /\ HandleNextPage(cache.current_url, dump_folder, cache)
    /\ UNCHANGED <<last, handled, profile, registry, classified, web>>

\* variant: the edges to the URL that get_next_url returns are set to
\* followed when it is returned, before its page is handled
ArchiveAdvanceMarksNext ==
    /\ pc = "advance"
    /\ \E o \in get_next_url(page_network, cache.current_url) :
          LET net == IF o.next_url = None THEN o.net
                     ELSE MarkFollowed(o.net, o.next_url)
          IN  /\ Commit([Database EXCEPT !.page_network = net])
              /\ next_url' = o.next_url
              /\ pc' = IF o.next_url = None THEN "done" ELSE "loop"
              /\ last' = Call("get_next_url", cache.current_url, None, None, "page",
                              NoSnapshot, o.next_url, FALSE,
                              Flipped(page_network, net), o.collapsed)
    /\ cache' = [cache EXCEPT !.last_url = cache.current_url]
    /\ request' = NoRequest
    /\ UNCHANGED <<failed, depth, handled, dump_folder, profile>>
    /\ UNCHANGED <<registry, observed, classified, web>>

\* the end of the loop body: last_url, and the next get_next_url
ArchiveAdvance ==
    /\ pc = "advance"
    /\ \E o \in get_next_url(page_network, cache.current_url) :
          /\ Commit([Database EXCEPT !.page_network = o.net])
          /\ next_url' = o.next_url
          /\ pc' = IF o.next_url = None THEN "done" ELSE "loop"
          /\ last' = Call("get_next_url", cache.current_url, None, None, "page",
                          NoSnapshot, o.next_url, FALSE,
                          Flipped(page_network, o.net), o.collapsed)
    /\ cache' = [cache EXCEPT !.last_url = cache.current_url]
    /\ request' = NoRequest
    /\ UNCHANGED <<failed, depth, handled, dump_folder, profile>>
    /\ UNCHANGED <<registry, observed, classified, web>>

\* the state dump after the loop
ArchiveFinish ==
    /\ pc = "done"
    /\ IF failed = Unset
       THEN /\ pc' = "raised"
            /\ UNCHANGED <<dump_folder, process>>
       ELSE /\ pc' = "finished"
            /\ dump_folder' = WriteDump(dump_folder, FinishedFile(cache.current_index),
                                        cache, failed, "archiving_finished")
            /\ process' = [process EXCEPT !.finished = @ \cup {website_entry}]
    /\ UNCHANGED <<store, last, cache, next_url, failed, depth, handled, profile>>
    /\ UNCHANGED <<registry, log, classified, web, request>>

(* ------------------------ store specification ------------------------- *)

\* what a database left behind by an earlier crawl can hold when the store
\* is constructed: nothing, or rows an operator has marked inactive
StoredDatabases ==
    {[pages |-> <<>>, assets |-> <<>>, page_network |-> <<>>, asset_network |-> <<>>],
     [pages |-> <<Page("u1", "x")>>, assets |-> <<>>,
      page_network |-> <<PageLink("u0", "u1", TRUE, "x")>>, asset_network |-> <<>>],
     [pages |-> <<Page("u0", "x")>>, assets |-> <<Asset("a1", "image/png", "x")>>,
      page_network |-> <<>>, asset_network |-> <<AssetLink("u0", "a1", "x")>>]}

InitStore ==
    /\ \E db \in StoredDatabases :
          /\ pages = db.pages
          /\ assets = db.assets
          /\ page_network = db.page_network
          /\ asset_network = db.asset_network
    /\ external_page_network = <<>>
    /\ raw_pages = <<>>
    /\ raw_assets = <<>>
    /\ last = NoCall

\* the profiles an archiver is constructed with
Profiles ==
    {[base_url |-> base_url, allowed_bases |-> None, proxies |-> proxies] :
        proxies \in {None, "random"}}

\* no page has been processed yet, and no process has run before this one
NoLog == [url |-> None, discarded |-> 0, discarded_external |-> 0]

NoProcess ==
    [restarts |-> 0, reload_last_state |-> TRUE, fresh |-> TRUE,
     before |-> {}, here |-> {}, finished |-> {}, interrupted |-> {},
     resumed |-> {}]

\* the sites crawled by the crawl specification: one whose pages link to each
\* other and to another host, and one whose pages link to a host named after
\* the base host
Webs == {AnyWeb(PageUrls \cup ExternalUrls), AnyWeb({base_url} \cup ForeignUrls)}

NoLink == [path |-> <<>>, bucket |-> None]

\* no archiver is running
InitIdle ==
    /\ pc = "idle"
    /\ cache = NewCache
    /\ next_url = None
    /\ failed = Unset
    /\ depth = 0
    /\ handled = [u \in FetchUrls |-> 0]
    /\ dump_folder = {}
    /\ profile = [base_url |-> base_url, allowed_bases |-> None, proxies |-> None]
    /\ website = <<>>
    /\ generated = <<>>
    /\ website_entry = 0
    /\ log = NoLog
    /\ process = NoProcess
    /\ web = AnyWeb({})
    /\ request = NoRequest

Init == InitStore /\ InitIdle /\ classified = NoLink

\* the (content, path) pairs the snapshot arguments are drawn from
PageSnapshots == {<<None, None>>, <<"c1", None>>, <<"c2", None>>, <<None, "f1">>}
AssetSnapshots == {<<None, None>>, <<"c1", None>>}

RegisterPage ==
    /\ UNCHANGED engine
    /\ \E url \in PageUrls, snapshot \in PageSnapshots :
        LET content == snapshot[1]
            path == snapshot[2]
            db == register_page(Database, url, content, path)
        IN  /\ Fits(db)
            /\ Commit(db)
            /\ last' = Call("register_page", url, None, None, "page",
                            snapshot, None, FALSE, {}, {})

RegisterAsset ==
    /\ UNCHANGED engine
    /\ \E source \in PageUrls \cup {None}, url \in AssetUrls, type \in AssetTypes,
       snapshot \in AssetSnapshots :
        LET content == snapshot[1]
            path == snapshot[2]
            db == register_asset(Database, source, url, type, content,
                                 "utf-8", ".png", path)
        IN  /\ Fits(db)
            /\ Commit(db)
            /\ last' = [Call("register_asset", url, source, url, "asset",
                             snapshot, None, FALSE, {}, {})
                        EXCEPT !.raised = RegisterAssetRaises(Database, source)]

RegisterLink ==
    /\ UNCHANGED engine
    /\ \E kind \in {"page", "asset"}, source \in PageUrls :
        \E target \in IF kind = "page" THEN PageUrls ELSE AssetUrls :
            LET db == register_link(Database, source, target, kind)
            IN  /\ Fits(db)
                /\ Commit(db)
                /\ last' = Call("register_link", None, source, target, kind,
                                NoSnapshot, None,
                                RegisterLinkResult(Database, source, target, kind),
                                {}, {})

GetNextUrl ==
    /\ UNCHANGED engine
    /\ \E page_url \in PageUrls \cup UnlinkedUrls :
        \E o \in get_next_url(page_network, page_url) :
            /\ Commit([Database EXCEPT !.page_network = o.net])
            /\ last' = Call("get_next_url", page_url, None, None, "page", NoSnapshot,
                            o.next_url, FALSE, Flipped(page_network, o.net),
                            o.collapsed)

RegisterTemporaryPageLinks ==
    /\ UNCHANGED engine
    /\ \E source \in PageUrls, targets \in TemporaryTargets :
        LET db == register_temporary_page_links(Database, source, targets)
        IN  /\ Fits(db)
            /\ Commit(db)
            /\ last' = [Call("register_temporary_page_links", None, source,
                             None, "page", NoSnapshot, None, FALSE, {}, {})
                        EXCEPT !.raised = PageIds(pages, source) = {}]

RelinkTemporaryLinks ==
    /\ UNCHANGED engine
    /\ LET db == relink_temporary_links(Database)
       IN  /\ Fits(db)
           /\ Commit(db)
           /\ last' = [Call("relink_temporary_links", None, None, None, "page",
                            NoSnapshot, None, FALSE, {}, {})
                       EXCEPT !.transferred =
                           (IF last.op = "relink_temporary_links"
                            THEN last.transferred ELSE {})
                           \cup Transferred(pages, external_page_network)]

Next ==
    \/ RegisterPage
    \/ RegisterAsset
    \/ RegisterLink
    \/ GetNextUrl
    \/ RegisterTemporaryPageLinks
    \/ RelinkTemporaryLinks

Spec == Init /\ [][Next]_vars

(* ------------------------- stop specification ------------------------- *)

\* what register_page has committed when the process stops between its two
\* commits: the Page upsert
RegisterPageCommitted(db, url) == [db EXCEPT !.pages = UpsertPage(@, url)]

\* what register_asset has committed when the process stops between its two
\* commits: the Asset upsert
RegisterAssetCommitted(db, url, type) ==
    [db EXCEPT !.assets = UpsertAsset(@, url, type)]

\* what relink_temporary_links has committed when the process stops after the
\* commit of the k-th temporary link: the internal links made so far, and
\* no deletion
RelinkCommitted(db, k) ==
    [db EXCEPT !.page_network =
        RelinkAll(@, db.pages, SubSeq(db.external_page_network, 1, k))]

\* the process is stopped inside register_page, after the first commit
StopInRegisterPage ==
    /\ UNCHANGED engine
    /\ \E url \in PageUrls, snapshot \in PageSnapshots :
        LET db == RegisterPageCommitted(Database, url)
        IN  /\ snapshot # NoSnapshot
            /\ Fits(db)
            /\ Commit(db)
            /\ last' = Call("register_page", url, None, None, "page",
                            snapshot, None, FALSE, {}, {})

\* the process is stopped inside register_asset, after the first commit
StopInRegisterAsset ==
    /\ UNCHANGED engine
    /\ \E source \in PageUrls \cup {None}, url \in AssetUrls, type \in AssetTypes,
       snapshot \in AssetSnapshots :
        LET db == RegisterAssetCommitted(Database, url, type)
        IN  /\ Fits(db)
            /\ Commit(db)
            /\ last' = Call("register_asset", url, source, url, "asset",
                            snapshot, None, FALSE, {}, {})

\* the process is stopped inside relink_temporary_links, after the commit of
\* a transferred link
StopInRelinkTemporaryLinks ==
    /\ UNCHANGED engine
    /\ \E k \in DOMAIN external_page_network :
        LET db == RelinkCommitted(Database, k)
        IN  /\ IsInternal(pages, external_page_network[k])
            /\ Fits(db)
            /\ Commit(db)
            /\ last' = Call("relink_temporary_links", None, None, None, "page",
                            NoSnapshot, None, FALSE, {}, {})

NextStop ==
    \/ Next
    \/ StopInRegisterPage
    \/ StopInRegisterAsset
    \/ StopInRelinkTemporaryLinks

SpecStop == Init /\ [][NextStop]_vars

(* -------------------------- website registry -------------------------- *)

\* the JSON column "profile": json.dumps of the dictionary on INSERT and
\* json.loads on SELECT; None is written as null
JsonDumps(p) ==
    [k \in DOMAIN p |-> [null |-> p[k] = None,
                         str |-> IF p[k] = None THEN "" ELSE p[k]]]

JsonLoads(j) == [k \in DOMAIN j |-> IF j[k].null THEN None ELSE j[k].str]

\* a row of the "website" table
Website(p) == [base_url |-> p.base_url, profile |-> JsonDumps(p)]

\* dictionary_utility.check_equality: the two dictionaries hold the same
\* keys and, recursively, the same values
check_equality(a, b) == a = b

\* the registry: the "website" table and the ids generate_archiving_tables
\* was called for; the result carries the id of the returned entry
add_website_to_archiver(reg, p) ==
    LET id == Len(reg.website) + 1
    IN  [website |-> Append(reg.website, Website(p)),
         generated |-> Append(reg.generated, id),
         entry |-> id]

GetOrCreateAlwaysAdd(reg, p) == {add_website_to_archiver(reg, p)}

\* the set of results: the query has no ORDER BY, so any entry of an equal
\* profile can be the first the loop meets
get_or_create_website_entry(reg, p) ==
    LET website_entries ==
            {i \in DOMAIN reg.website : reg.website[i].base_url = p.base_url}
        equal == {i \in website_entries :
                     check_equality(JsonLoads(reg.website[i].profile), p)}
    IN  IF equal # {}
        THEN {[website |-> reg.website, generated |-> reg.generated,
               entry |-> i] : i \in equal}
        ELSE {add_website_to_archiver(reg, p)}

(* ------------------------ crawl specification ------------------------- *)

\* a dump folder as the constructor can find it: empty, or holding a
\* MILESTONE dump, which load_state_dump has read into the cache and failed
StoredDumps ==
    {{}, {[file |-> MilestoneFile(0), cache |-> NewCache, failed |-> <<>>,
           reason |-> "archiving_milestone"]}}

InitArchiver ==
    /\ pc = "init"
    /\ next_url = None
    /\ depth = 0
    /\ handled = [u \in FetchUrls |-> 0]
    /\ \E folder \in StoredDumps :
          /\ dump_folder = folder
          /\ IF folder = {}
             THEN cache = NewCache /\ failed = Unset
             ELSE \E d \in folder :
                     /\ cache = CacheDefaults(load_state_dump(<<>>, d).cache)
                     /\ failed = load_state_dump(<<>>, d).failed
    /\ profile \in Profiles
    /\ website = <<Website(profile)>>
    /\ generated = <<1>>
    /\ website_entry = 1
    /\ log = NoLog
    /\ process = [NoProcess EXCEPT !.fresh = Rows(Database) = 0]
    /\ classified = NoLink
    /\ request = NoRequest

InitCrawl == InitStore /\ InitArchiver /\ web \in Webs

NextCrawl ==
    \/ ArchiveStart
    \/ ArchiveNextPage
    \/ RetryAfterOutage
    \/ ArchiveAdvance
    \/ ArchiveFinish

SpecCrawl == InitCrawl /\ [][NextCrawl]_vars

(* ------------------------- fetch specification ------------------------ *)

\* a site of three pages: the base page links to the two others and holds an
\* asset, one of the others links back to both and holds the same asset
FetchWeb ==
    LinkedWeb([u \in FetchUrls |->
                  IF u = base_url THEN Links({"u1", "y1"}, {"a1"})
                  ELSE IF u \in ForeignUrls THEN Links({"u0", "u1"}, {"a1"})
                  ELSE Links({}, {})])

\* the tables of a new database
NewDatabase ==
    [pages |-> <<>>, assets |-> <<>>, page_network |-> <<>>,
     asset_network |-> <<>>, external_page_network |-> <<>>,
     raw_pages |-> <<>>, raw_assets |-> <<>>]

\* the tables an archiver of the site leaves behind when it is killed after
\* its first _handle_next_page call: the base page, its asset and its links
InterruptedDatabase ==
    LET db1 == register_page(NewDatabase, base_url, "c1", None)
        db2 == RegisterAssets(db1, base_url, <<"a1">>,
                              [a \in AssetUrls |-> "ok"]).db
    IN  register_link(register_link(db2, base_url, "u1", "page"),
                      base_url, "y1", "page")

\* the site is crawled from a new database, or from the one an interrupted
\* crawl of it left
InitFetch ==
    /\ \E db \in {NewDatabase, InterruptedDatabase} :
          /\ pages = db.pages
          /\ assets = db.assets
          /\ page_network = db.page_network
          /\ asset_network = db.asset_network
          /\ external_page_network = db.external_page_network
          /\ raw_pages = db.raw_pages
          /\ raw_assets = db.raw_assets
    /\ last = NoCall
    /\ InitArchiver
    /\ web = FetchWeb

SpecFetch == InitFetch /\ [][NextCrawl]_vars

(* ------------------------ resume specification ------------------------ *)

\* processes started after the first one
MaxRestarts == 1

\* the sites of the resume specification: every request is answered with
\* 200 and the same links each time
BaseContents ==
    {Links({"u1", "x1"}, {"a1"}), Links({"u1"}, {}), Links({"u0", "u1"}, {})}

LinkedContents ==
    {Links({}, {}), Links({"u0"}, {"a1"}), Links({"u0", "u1"}, {})}

FixedWebs ==
    {FixedWeb([u \in PageUrls |-> IF u = base_url THEN b ELSE l]) :
        b \in BaseContents, l \in LinkedContents}

\* the "website" table before the first archiver is constructed: empty, or
\* holding the entry of this or of another profile
StoredWebsites == {<<>>} \cup {<<Website(p)>> : p \in Profiles}

InitResume ==
    /\ InitStore
    /\ pc = "new"
    /\ cache = NewCache
    /\ next_url = None
    /\ failed = Unset
    /\ depth = 0
    /\ handled = [u \in FetchUrls |-> 0]
    /\ dump_folder \in StoredDumps
    /\ profile \in Profiles
    /\ website \in StoredWebsites
    /\ Rows(Database) > 0 => website = <<Website(profile)>>
    /\ generated = [i \in DOMAIN website |-> i]
    /\ website_entry = 0
    /\ log = NoLog
    /\ process = [NoProcess EXCEPT !.fresh = Rows(Database) = 0]
    /\ classified = NoLink
    /\ web \in FixedWebs
    /\ request = NoRequest

\* WebsiteArchiver.__init__ and RequestsWebsiteArchiver.__init__: a process
\* constructs an archiver for the profile on the database and the dump
\* folder the processes before it left, whatever they were doing
Construct ==
    /\ pc = "new" \/ process.restarts < MaxRestarts
    /\ \E got \in get_or_create_website_entry(
                     [website |-> website, generated |-> generated], profile),
          reload_last_state \in BOOLEAN :
          LET dumped_caches ==
                  {d \in dump_folder :
                      d.file.kind \in {"MILESTONE", "MILESTONE_FINISHED"}}
          IN  /\ website' = got.website
              /\ generated' = got.generated
              /\ website_entry' = got.entry
              /\ IF reload_last_state /\ dumped_caches # {}
                 THEN \E d \in dumped_caches :
                         /\ cache' = CacheDefaults(load_state_dump(<<>>, d).cache)
                         /\ failed' = load_state_dump(<<>>, d).failed
                 ELSE cache' = NewCache /\ failed' = Unset
              /\ process' =
                    [process EXCEPT
                        !.restarts = IF pc = "new" THEN 0 ELSE @ + 1,
                        !.reload_last_state = reload_last_state,
                        !.before = @ \cup process.here,
                        !.here = {}]
    /\ pc' = "init"
    /\ next_url' = None
    /\ depth' = 0
    /\ handled' = [u \in FetchUrls |-> 0]
    /\ log' = NoLog
    /\ request' = NoRequest
    /\ UNCHANGED <<store, last, dump_folder, profile, classified, web>>

NextResume ==
    \/ Construct
    \/ ArchiveStart
    \/ ArchiveNextPage
    \/ ArchiveAdvance
    \/ ArchiveFinish

SpecResume == InitResume /\ [][NextResume]_vars

\* a step of the running archiver: archive_website goes on from where it is
Proceeds ==
    /\ pc \in {"init", "loop", "advance", "done"}
    /\ pc' \in {"loop", "advance", "done", "finished", "raised"}
    /\ pc' # pc

\* the crawl as a sequential program: the first process is started, and the
\* running process takes the step it is at
SpecTerminate ==
    /\ SpecResume
    /\ WF_vars(pc = "new" /\ Construct)
    /\ WF_pc(Proceeds)

(* ------------------------- crash specification ----------------------- *)

\* the process is terminated inside _handle_next_page, after the milestone
\* step of the loop, the request and register_page, when some of the asset
\* links and then some of the page links of the response are registered
KillInPage ==
    /\ pc = "loop"
    /\ depth = 0
    /\ MilestoneDue(cache) => failed # Unset
    /\ LET url == next_url
           c == IF MilestoneDue(cache)
                THEN [cache EXCEPT !.last_milestone = cache.current_index]
                ELSE cache
           folder == IF MilestoneDue(cache)
                     THEN WriteDump(RotateLatest(dump_folder, cache.last_milestone),
                                    LatestFile, c, failed, "archiving_milestone")
                     ELSE dump_folder
       IN  \E o \in Responses(profile.proxies) :
              /\ o.raised = None /\ Processable(o.response)
              /\ \E target_pages \in UNION {Orderings(l) : l \in PageLinkSets(url)},
                    target_assets \in UNION {Orderings(l) : l \in AssetLinkSets(url)},
                    asset_results \in AssetAnswers :
                    \E na \in 0..Len(target_assets), np \in 0..Len(target_pages) :
                       /\ np > 0 => na = Len(target_assets)
                       /\ asset_results \in [AssetUrls -> {"ok"}]
                       /\ Commit(RegisterPageLinks(
                                    RegisterAssets(
                                        register_page(Database, url, "c1", None), url,
                                        SubSeq(target_assets, 1, na), asset_results).db,
                                    url, SubSeq(target_pages, 1, np)))
              /\ cache' = [c EXCEPT !.current_url = url]
              /\ dump_folder' = folder
              /\ handled' = [handled EXCEPT ![url] = @ + 1]
              /\ process' = [process EXCEPT
                                 !.interrupted =
                                     @ \cup ({url} \ (process.before \cup process.here))]
    /\ pc' = "killed"
    /\ request' = NoRequest
    /\ UNCHANGED <<last, next_url, failed, depth, profile, registry, log>>
    /\ UNCHANGED <<classified, web>>

NextCrash ==
    \/ NextResume
    \/ KillInPage

SpecCrash == InitResume /\ [][NextCrash]_vars

(* --------------------- classification specification ------------------- *)

\* the longest path segment, in pieces
MaxSegment == 5

\* the pieces the segments of a URL path are put together from
Pieces == {"a", ".", "html", "HTML", "php"}

Segments == UNION {[1..n -> Pieces] : n \in 0..MaxSegment}

\* urlparse(link).path.split("/"): a directory and the final segment
Paths == {<<d, s>> : d \in {<<"a">>, <<"a", ".", "a">>}, s \in Segments}

\* str.lower
Lower(s) == [i \in DOMAIN s |-> IF s[i] = "HTML" THEN "html" ELSE s[i]]

\* the filter of the list comprehension that moves a link from target_pages
\* to target_assets
IsAsset(path) ==
    LET name == path[Len(path)]
    IN  /\ Occurs(<<".">>, name)
        /\ ~Occurs(<<".", "html">>, Lower(name))
        /\ ~Occurs(<<".", "php">>, Lower(name))

\* a link found in a page, not yet in one of the two lists
InitClassify ==
    /\ InitStore
    /\ InitIdle
    /\ \E path \in Paths : classified = [path |-> path, bucket |-> None]

\* the list the link ends up in
Classify ==
    /\ classified.bucket = None
    /\ classified' = [classified EXCEPT
                         !.bucket = IF IsAsset(classified.path) THEN "asset"
                                    ELSE "page"]
    /\ UNCHANGED <<store, last, pc, cache, next_url, failed, depth, handled,
                   dump_folder, profile, registry, observed, web, request>>

SpecClassify == InitClassify /\ [][Classify]_vars

(* ------------------------ repair specification ------------------------ *)

\* pages one archiver handles before the exploration ends
MaxPages == 4

\* the tables of a database in which the store's register_link has been
\* called with a target that has no scheme, before the archiver is run
SchemelessDatabase ==
    register_link(NewDatabase, base_url, "s1", "page")

InitRepair ==
    /\ pages = SchemelessDatabase.pages
    /\ assets = SchemelessDatabase.assets
    /\ page_network = SchemelessDatabase.page_network
    /\ asset_network = SchemelessDatabase.asset_network
    /\ external_page_network = SchemelessDatabase.external_page_network
    /\ raw_pages = SchemelessDatabase.raw_pages
    /\ raw_assets = SchemelessDatabase.raw_assets
    /\ last = NoCall
    /\ InitArchiver
    /\ web \in FixedWebs

\* archive_website on that database: the loop does not end, since the edge
\* to the target without a scheme stays not followed, and the site answers
\* every request, so the handler makes no nested call
NextRepair ==
    /\ cache.current_index < MaxPages
    /\ \/ ArchiveStart
       \/ ArchiveNextPage
       \/ ArchiveAdvance

SpecRepair == InitRepair /\ [][NextRepair]_vars

(* ---------------------- checkpoint specification --------------------- *)

\* the caches an archiver can hold when it writes a state dump: before the
\* first page no URL and no page is counted, and the last milestone is a
\* counter value the archiver has passed
Caches ==
    {c \in [current_url : FetchUrls \cup {None}, last_url : FetchUrls \cup {None},
            current_index : 0..MaxRows, last_milestone : {0, milestones}] :
        /\ c.last_milestone <= c.current_index
        /\ c.current_url = None => c.last_url = None /\ c.current_index = 0}

\* an archiver in the middle of a crawl, with any cache and any failed set,
\* or without one, on an empty dump folder
InitCheckpoint ==
    /\ pages = NewDatabase.pages
    /\ assets = NewDatabase.assets
    /\ page_network = NewDatabase.page_network
    /\ asset_network = NewDatabase.asset_network
    /\ external_page_network = NewDatabase.external_page_network
    /\ raw_pages = NewDatabase.raw_pages
    /\ raw_assets = NewDatabase.raw_assets
    /\ last = NoCall
    /\ pc = "running"
    /\ cache \in Caches
    /\ failed \in (SUBSET FetchUrls) \cup {Unset}
    /\ next_url = None
    /\ depth = 0
    /\ handled = [u \in FetchUrls |-> 0]
    /\ dump_folder = {}
    /\ profile = [base_url |-> base_url, allowed_bases |-> None, proxies |-> None]
    /\ website = <<Website(profile)>>
    /\ generated = <<1>>
    /\ website_entry = 1
    /\ log = NoLog
    /\ process = NoProcess
    /\ classified = NoLink
    /\ web = FetchWeb
    /\ request = NoRequest

\* create_state_dump, called as the loop, the exception handlers and the end
\* of archive_website call it; list(self.failed) raises without the attribute
CreateStateDump ==
    /\ pc = "running"
    /\ \E call \in {<<LatestFile, "archiving_milestone">>,
                     <<ExceptionFile, "exception">>,
                     <<FinishedFile(cache.current_index), "archiving_finished">>} :
          IF failed = Unset
          THEN pc' = "raised" /\ dump_folder' = dump_folder
          ELSE /\ pc' = "dumped"
               /\ dump_folder' = WriteDump(dump_folder, call[1], cache, failed, call[2])
    /\ UNCHANGED <<store, last, cache, next_url, failed, depth, handled, profile>>
    /\ UNCHANGED <<registry, observed, classified, web, request>>

\* load_state_dump of a file of the folder, by a newly constructed archiver
LoadStateDump ==
    /\ pc = "dumped"
    /\ \E d \in dump_folder :
          /\ cache' = CacheDefaults(load_state_dump(<<>>, d).cache)
          /\ failed' = load_state_dump(<<>>, d).failed
    /\ pc' = "loaded"
    /\ UNCHANGED <<store, last, next_url, depth, handled, dump_folder, profile>>
    /\ UNCHANGED <<registry, observed, classified, web, request>>

NextCheckpoint ==
    \/ CreateStateDump
    \/ LoadStateDump

SpecCheckpoint == InitCheckpoint /\ [][NextCheckpoint]_vars

(* ------------------------------ claims -------------------------------- *)

Registrations == {"register_page", "register_asset", "register_link"}

\* C1: once a PageLink row is followed it stays followed in every later
\* state, whatever store operation runs; register_link on an existing edge
\* leaves the followed flag of every row as it was.
C1_MonotonicFollow ==
    [][/\ \A i \in DOMAIN page_network :
             page_network[i].followed
             => i \in DOMAIN page_network' /\ page_network'[i].followed
       /\ last'.op = "register_link"
          => \A i \in DOMAIN page_network :
                page_network'[i].followed = page_network[i].followed]_vars

\* register_link has just reactivated an existing edge that is followed
C1_Witness ==
    /\ last.op = "register_link" /\ last.kind = "page" /\ ~last.created
    /\ \E i \in DOMAIN page_network :
          /\ page_network[i].source_page_url = last.source
          /\ page_network[i].target_page_url = last.target
          /\ page_network[i].followed

\* C2: within one run of archive_website every page URL, the base URL
\* included, is handed to _handle_next_page by the loop at most once.
C2_NoDuplicateRevisits == \A u \in PageUrls : handled[u] <= 1

\* C3: whenever an edge to a target t is set to followed, every edge to t is
\* followed after that step: siblings are marked together, none stays pending.
C3_SiblingMarking ==
    [][\A i \in DOMAIN page_network :
          ~page_network[i].followed /\ page_network'[i].followed
          => \A j \in DOMAIN page_network' :
                page_network'[j].target_page_url = page_network[i].target_page_url
                => page_network'[j].followed]_vars

\* get_next_url has just set two or more edges to its current URL to followed
C3_Witness ==
    /\ last.op = "get_next_url"
    /\ Cardinality({i \in last.flipped :
                        page_network[i].target_page_url = last.url}) >= 2

\* C4: when get_next_url(current_url) has returned, no PageLink row whose
\* target is current_url is left with followed = false.
C4_CurrentUrlFollowed ==
    last.op = "get_next_url"
    => \A i \in DOMAIN page_network :
          page_network[i].target_page_url = last.url => page_network[i].followed

\* get_next_url has just set an edge to its current URL to followed
C4_Witness ==
    /\ last.op = "get_next_url"
    /\ \E i \in last.flipped : page_network[i].target_page_url = last.url

\* C5: get_next_url never returns the target of a followed edge, and every
\* target it skipped as already visited has no pending edge left.
C5_DuplicateCollapse ==
    last.op = "get_next_url"
    => /\ last.next_url # None
          => ~\E i \in DOMAIN page_network :
                 /\ page_network[i].followed
                 /\ page_network[i].target_page_url = last.next_url
       /\ \A t \in last.collapsed :
             \A i \in DOMAIN page_network :
                page_network[i].target_page_url = t => page_network[i].followed

\* get_next_url has skipped a visited target and then returned another URL
C5_Witness ==
    /\ last.op = "get_next_url"
    /\ last.collapsed # {}
    /\ last.next_url # None

\* C6: get_next_url returns none only when every edge is followed; it returns
\* a URL whenever some pending edge has a target no followed edge points to,
\* and the URL it returns is the target of a pending edge.
C6_NoneIffNoPending ==
    last.op = "get_next_url"
    => LET pending == {i \in DOMAIN page_network : ~page_network[i].followed}
           fresh == {i \in pending :
                        ~\E j \in DOMAIN page_network :
                            /\ page_network[j].followed
                            /\ page_network[j].target_page_url
                               = page_network[i].target_page_url}
       IN  /\ last.next_url = None => pending = {}
           /\ fresh # {} => last.next_url # None
           /\ last.next_url # None
              => \E i \in pending : page_network[i].target_page_url = last.next_url

\* get_next_url has returned none after following the last pending edges
C6_Witness ==
    /\ last.op = "get_next_url"
    /\ last.next_url = None
    /\ last.collapsed # {}
    /\ Len(page_network) >= 2

\* the row a registration call addresses: there is exactly one such row and
\* it is not tombstoned
Addressed(call) ==
    IF call.op = "register_page"
    THEN /\ Cardinality(PageIds(pages, call.url)) = 1
         /\ \A i \in PageIds(pages, call.url) : pages[i].inactive = ""
    ELSE IF call.op = "register_asset"
    THEN /\ Cardinality(AssetIds(assets, call.url)) = 1
         /\ \A i \in AssetIds(assets, call.url) : assets[i].inactive = ""
         /\ call.source # None /\ ~call.raised
            => /\ Cardinality(AssetLinkIds(asset_network, call.source, call.url)) = 1
               /\ \A i \in AssetLinkIds(asset_network, call.source, call.url) :
                     asset_network[i].inactive = ""
    ELSE IF call.kind = "page"
    THEN /\ Cardinality(PageLinkIds(page_network, call.source, call.target)) = 1
         /\ \A i \in PageLinkIds(page_network, call.source, call.target) :
               page_network[i].inactive = ""
    ELSE /\ Cardinality(AssetLinkIds(asset_network, call.source, call.target)) = 1
         /\ \A i \in AssetLinkIds(asset_network, call.source, call.target) :
               asset_network[i].inactive = ""

\* C7: after a registration call the addressed row exists once and is not
\* tombstoned, and a registration call that repeats the call before it with
\* identical arguments leaves the numbers of Page, Asset, PageLink and
\* AssetLink rows unchanged.
C7_IdempotentRegistration ==
    /\ [](last.op \in Registrations => Addressed(last))
    /\ [][last'.op \in Registrations /\ last'.repeated
          => /\ Len(pages') = Len(pages)
             /\ Len(assets') = Len(assets)
             /\ Len(page_network') = Len(page_network)
             /\ Len(asset_network') = Len(asset_network)]_vars

\* register_asset has just been called a second time with the same arguments
C7_Witness ==
    /\ last.op = "register_asset"
    /\ last.repeated
    /\ last.source # None
    /\ ~last.raised

\* the rows of the edge (source, target) of a kind
EdgeIds(pn, an, call) ==
    IF call.kind = "page" THEN PageLinkIds(pn, call.source, call.target)
    ELSE AssetLinkIds(an, call.source, call.target)

RawPagesOf(p) ==
    {i \in DOMAIN raw_pages :
        raw_pages[i].page_id \in {IntVal(p), TextVal(pages[p].page_url)}}

\* C9: a page that has RawPage rows has exactly one that is not tombstoned,
\* the most recently appended one.
C9_OneLiveSnapshot ==
    \A p \in DOMAIN pages :
        RawPagesOf(p) # {}
        => /\ Cardinality({i \in RawPagesOf(p) : raw_pages[i].inactive = ""}) = 1
           /\ \A i \in RawPagesOf(p) :
                 raw_pages[i].inactive = "" <=> \A j \in RawPagesOf(p) : j <= i

\* the rows of a table are kept, with the columns that identify them
Kept(old, new, columns) ==
    /\ Len(new) >= Len(old)
    /\ \A i \in DOMAIN old : \A c \in columns : new[i][c] = old[i][c]

\* C10: no store operation removes a Page, Asset, PageLink, AssetLink, RawPage
\* or RawAsset row or overwrites what a raw row holds: each of these tables
\* only grows.
C10_HistoryRetained ==
    [][/\ Kept(pages, pages', {"page_url"})
       /\ Kept(assets, assets', {"asset_url", "asset_type"})
       /\ Kept(page_network, page_network', {"source_page_url", "target_page_url"})
       /\ Kept(asset_network, asset_network', {"source_page_url", "target_asset_url"})
       /\ Kept(raw_pages, raw_pages', {"page_id", "raw", "path"})
       /\ Kept(raw_assets, raw_assets',
               {"asset_id", "raw", "encoding", "extension", "path"})]_vars

\* register_page has just appended a second snapshot with another content
C10_Witness ==
    /\ last.op = "register_page"
    /\ Len(raw_pages) >= 2
    /\ raw_pages[1].raw # raw_pages[2].raw
    /\ raw_pages[1].page_id = raw_pages[2].page_id

\* C11: when relink_temporary_links has returned, no temporary link is left
\* whose target is the URL of a Page row; every temporary link it removed has
\* a PageLink with its source and target that is not tombstoned; and no
\* (source, target) pair has more than one PageLink.
C11_ReconciliationConvergence ==
    /\ [](/\ last.op = "relink_temporary_links"
             => \A i \in DOMAIN external_page_network :
                   ~IsInternal(pages, external_page_network[i])
          /\ \A i, j \in DOMAIN page_network :
                /\ page_network[i].source_page_url = page_network[j].source_page_url
                /\ page_network[i].target_page_url = page_network[j].target_page_url
                => i = j)
    /\ [][last'.op = "relink_temporary_links"
          => \A i \in DOMAIN external_page_network :
                IsInternal(pages, external_page_network[i])
                => \E j \in DOMAIN page_network' :
                      /\ page_network'[j].source_page_url
                         = external_page_network[i].source_page_url
                      /\ page_network'[j].target_page_url
                         = external_page_network[i].target_page_url
                      /\ page_network'[j].inactive = ""]_vars

\* a reconciliation has transferred a link and left one to another host behind
C11_Witness ==
    /\ last.op = "relink_temporary_links"
    /\ ~last.repeated
    /\ last.transferred # {}
    /\ external_page_network # <<>>

\* C12: a reconciliation that directly follows a reconciliation leaves the
\* Page, PageLink and ExternalPageLink rows as they are.
C12_ReconciliationIdempotent ==
    [][last.op = "relink_temporary_links" /\ last'.op = "relink_temporary_links"
       => /\ pages' = pages
          /\ page_network' = page_network
          /\ external_page_network' = external_page_network]_vars

\* a second reconciliation has run directly after one that transferred a
\* temporary link
C12_Witness ==
    /\ last.op = "relink_temporary_links"
    /\ last.repeated
    /\ last.transferred # {}
    /\ page_network # <<>>

\* C19: a PageLink row is written only for a link whose host is one of the
\* allowed hosts; a link to any other host leaves no Page, PageLink or
\* ExternalPageLink row and is counted as external-discarded.
C19_AllowedHostRestriction ==
    /\ \A i \in DOMAIN page_network :
          Host(page_network[i].target_page_url) \in allowed_bases
    /\ \A i \in DOMAIN pages : Host(pages[i].page_url) \in allowed_bases
    /\ \A i \in DOMAIN external_page_network :
          Host(external_page_network[i].target_page_url) \in allowed_bases

\* C20: between two iterations of the archive loop the source and the target
\* of every PageLink row are URLs of Page rows, and the target of every
\* AssetLink row is the URL of an Asset row.
C20_GraphReferentialIntegrity ==
    pc = "advance"
    => /\ \A i \in DOMAIN page_network :
             /\ \E j \in DOMAIN pages :
                   pages[j].page_url = page_network[i].source_page_url
             /\ \E j \in DOMAIN pages :
                   pages[j].page_url = page_network[i].target_page_url
       /\ \A i \in DOMAIN asset_network :
             \E j \in DOMAIN assets :
                assets[j].asset_url = asset_network[i].target_asset_url

\* a step of Construct: an archiver has been constructed for the profile
Constructed == pc' = "init" /\ (pc = "new" \/ process'.restarts # process.restarts)

\* the entries of the "website" table whose profile is deep-equal to p
EqualEntries(p) ==
    {i \in DOMAIN website : check_equality(JsonLoads(website[i].profile), p)}

\* C13: get_or_create_website_entry called with a profile deep-equal to the
\* profile of an entry whose run is not finished returns that entry: no
\* second entry is written, no second set of tables is generated, and a
\* second construction with the profile gets the entry the first one got.
C13_RunReuse ==
    [][Constructed /\ EqualEntries(profile) \ process.finished # {}
       => /\ website' = website
          /\ generated' = generated
          /\ website_entry' \in EqualEntries(profile)
          /\ website_entry # 0 => website_entry' = website_entry]_vars

\* a second archiver has been constructed for the profile while the run of
\* the first one is unfinished, and holds the first one's entry
C13_Witness ==
    /\ pc = "init"
    /\ process.restarts = 1
    /\ process.finished = {}
    /\ website_entry \in EqualEntries(profile)
    /\ Len(website) = 1

\* C14: get_or_create_website_entry never returns the entry of a finished
\* run: when the runs of all entries of an equal profile are finished, it
\* writes a new entry.
C14_OnlyUnfinishedRunsReused ==
    [][Constructed => website_entry' \notin process.finished]_vars

\* C15: an archiver constructed with reload_last_state after an interruption
\* fetches none of the page URLs the processes before it had completely
\* processed.
C15_ResumeWithoutRefetch ==
    process.reload_last_state => \A u \in process.before : handled[u] = 0

\* the numbers of tracked pages and assets
get_element_count(db) == <<Len(db.pages), Len(db.assets)>>

\* the pages an uninterrupted crawl of the site fetches: the closure of the
\* page links from the base URL on
RECURSIVE Reachable(_)
Reachable(S) ==
    LET T == S \cup UNION {web.pages[u].pages \cap PageUrls : u \in S}
    IN  IF T = S THEN S ELSE Reachable(T)

\* what an uninterrupted crawl of the site from a fresh store ends with: the
\* element counts, and the page counter, which counts the base URL twice
\* when only another page links to it
UninterruptedCounts ==
    LET reached == Reachable({base_url})
    IN  <<Cardinality(reached),
          Cardinality(UNION {web.pages[u].assets : u \in reached})>>

UninterruptedIndex ==
    LET reached == Reachable({base_url})
    IN  Cardinality(reached)
        + (IF /\ base_url \notin web.pages[base_url].pages
              /\ \E u \in reached \ {base_url} : base_url \in web.pages[u].pages
           THEN 1 ELSE 0)

\* the crawl of one process from a fresh store ends with these numbers
UninterruptedResult ==
    pc = "finished" /\ process.fresh /\ process.restarts = 0
    => /\ get_element_count(Database) = UninterruptedCounts
       /\ cache.current_index = UninterruptedIndex

\* C16: a crawl from a fresh store that was interrupted and restarted ends
\* with the page count, the asset count and the page counter of the
\* finishing state dump an uninterrupted crawl of the same site ends with.
C16_ResumeEquivalence ==
    pc = "finished" /\ process.fresh /\ process.restarts > 0
    => /\ get_element_count(Database) = UninterruptedCounts
       /\ cache.current_index = UninterruptedIndex

\* the site of the fixture: the base page links to the page u1, the asset a1
\* and the URL x1 of another host; u1 has no links
Fixture ==
    FixedWeb([u \in PageUrls |->
                 IF u = base_url THEN Links({"u1", "x1"}, {"a1"})
                 ELSE Links({}, {})])

\* the first process crawls the fixture from a fresh store
CrawlsFixture == web = Fixture /\ process.fresh /\ process.restarts = 0

\* C17: the crawl of the fixture from a fresh store ends with exactly the
\* Page rows u0 and u1, the Asset row a1, the PageLink row u0 -> u1 and the
\* AssetLink row u0 -> a1; no row of any table ever names x1, and the log
\* line of the page u0 counts one external link.
C17_FixtureScenario ==
    CrawlsFixture
    => /\ pc \in {"done", "finished", "raised"}
          => /\ {pages[i].page_url : i \in DOMAIN pages} = {"u0", "u1"}
             /\ Len(pages) = 2
             /\ Len(assets) = 1 /\ assets[1].asset_url = "a1"
             /\ Len(page_network) = 1
             /\ page_network[1].source_page_url = "u0"
             /\ page_network[1].target_page_url = "u1"
             /\ Len(asset_network) = 1
             /\ asset_network[1].source_page_url = "u0"
             /\ asset_network[1].target_asset_url = "a1"
       /\ \A i \in DOMAIN page_network :
             page_network[i].target_page_url \notin ExternalUrls
       /\ \A i \in DOMAIN pages : pages[i].page_url \notin ExternalUrls
       /\ external_page_network = <<>>
       /\ log.url = "u0" => log.discarded_external = 1 /\ log.discarded = 0

\* the crawl of the fixture has ended, after the log line of u0 and of u1
C17_Witness ==
    /\ CrawlsFixture
    /\ pc = "done"
    /\ Len(pages) = 2
    /\ log.url = "u1"
    /\ process.here = {"u0", "u1"}

\* s ends with the pieces of suffix
EndsWith(s, suffix) ==
    /\ Len(s) >= Len(suffix)
    /\ SubSeq(s, Len(s) - Len(suffix) + 1, Len(s)) = suffix

\* C18: a link is put with the assets if and only if the final segment of
\* its path holds a "." and does not end in ".html" or ".php", whatever the
\* case of the letters; every other link is put with the pages.
C18_ClassificationRule ==
    classified.bucket # None
    => LET name == classified.path[Len(classified.path)]
       IN  classified.bucket = "asset"
           <=> /\ Occurs(<<".">>, name)
               /\ ~EndsWith(Lower(name), <<".", "html">>)
               /\ ~EndsWith(Lower(name), <<".", "php">>)

\* the call that has just returned made its first request and the requests
\* of _retry_with_new_identity, and none of them was answered with 200
StillNon200 ==
    /\ request.url # None
    /\ Len(request.attempts) >= 2
    /\ \A i \in DOMAIN request.attempts : request.attempts[i] = "non200"

\* C21: when the first request of a page and the request of the identity
\* rotation (a further one through a fresh proxy when proxies is "random")
\* are answered with a status other than 200, the URL is in the failed set
\* and the loop goes on to the next URL.
C21_Non200Ladder ==
    StillNon200 /\ failed # Unset => request.url \in failed /\ pc = "advance"

\* C22: when the first request of a page is answered with a status other
\* than 200 and the request of the identity rotation with 200, the page is
\* processed from that response, whatever a further request is answered,
\* and the URL is not in the failed set.
C22_SuccessfulRotationUsed ==
    /\ request.url # None
    /\ Len(request.attempts) >= 2
    /\ request.attempts[1] = "non200"
    /\ request.attempts[2] = "200"
    => /\ request.response = "200"
       /\ request.raised = None
       /\ Len(request.attempts) = 2
       /\ \E i \in DOMAIN pages : pages[i].page_url = request.url
       /\ request.url \notin failed

\* the URL the next _handle_next_page call requests
FetchTarget == IF depth = 0 THEN next_url ELSE cache.current_url

\* C23: a URL of the failed set is never requested again in the run, also
\* when a page processed later links to it; a request that raises
\* TooManyRedirects is the last request of its URL.
C23_FailedUrlsNotRetried ==
    failed # Unset
    => /\ pc = "loop" => FetchTarget \notin failed
       /\ request.fail
          => /\ request.attempts[Len(request.attempts)] = "TooManyRedirects"
             /\ request.url \in failed
             /\ pc = "advance"

\* the dump folder holds EXCEPTION.json, written for the URL with an exception
ExceptionDumped(url) ==
    \E d \in dump_folder :
       /\ d.file = ExceptionFile
       /\ d.reason = "exception"
       /\ d.cache.current_url = url

\* C24: when the request of a page has raised a connection error, the state
\* dump recording the exception is in the dump folder before connectivity
\* is probed and before the URL is requested again.
C24_OutageCheckpointOrdering ==
    /\ request.outage => ExceptionDumped(request.url)
    /\ depth > 0 => ExceptionDumped(cache.current_url)

\* C25: after a connection error with connectivity found, the URL is
\* requested again and is not in the failed set on account of the outage;
\* the URL is not requested again while connectivity has not been found.
C25_OutageRecovery ==
    /\ request.outage /\ request.probe = "up"
       => request.url \notin failed /\ pc = "loop" /\ depth > 0
    /\ request.outage /\ request.probe = "down" => pc # "loop"

\* C26: after a connection error during which connectivity is not found
\* again, the handling of the URL ends with the URL in the failed set and
\* the loop going on to the next URL, after a bounded number of requests.
C26_BoundedOutageRetry ==
    request.outage /\ request.probe = "down"
    => request.url \in failed /\ pc = "advance" /\ depth = 0

\* C27: when a request of a page raises an exception no handler is written
\* for, the run ends with EXCEPTION.json written for that state and no
\* finishing dump.
C27_FatalErrors ==
    request.raised # None
    => /\ pc = "raised"
       /\ \E d \in dump_folder :
             d.file = ExceptionFile /\ d.reason = "exception" /\ d.cache = cache
       /\ \A d \in dump_folder :
             d.file.kind = "MILESTONE_FINISHED" => d.cache # cache

\* C28: when get_asset_data fails for an asset of a page, in whatever way,
\* the page is processed to its end: its page links are registered, the
\* page counter is incremented and the loop goes on.
C28_AssetFailureContainment ==
    (\E i \in DOMAIN request.fetched : request.fetched[i].result # "ok")
    => /\ pc = "advance"
       /\ log.url = request.url
       /\ Len(request.fetched) = Cardinality(web.pages[request.url].assets)

\* C29: get_asset_data is not called for an asset URL that has an Asset row
\* already; only the AssetLink is registered for it.
C29_AssetsFetchedOnce ==
    \A i \in DOMAIN request.fetched : ~request.fetched[i].known

\* C30: a _handle_next_page call whose requests do not end in a response of
\* status 200 changes no row of any table and leaves the page counter as it
\* was.
C30_RegistrationOnlyAfterSuccess ==
    [][pc = "loop" /\ request'.url # None /\ request'.response # "200"
       => store' = store /\ cache'.current_index = cache.current_index]_vars

\* a call has just returned with a response of another status, or none,
\* while the database holds rows
C30_Witness ==
    /\ request.url # None
    /\ request.response # "200"
    /\ pc = "advance"
    /\ Len(pages) > 0
    /\ Len(page_network) > 0

\* C40: an archiver constructed without a loadable checkpoint has a failed
\* set, empty before the first fetch, so that a failed URL can be recorded
\* in it (the set then holds that URL) and no checkpoint write is refused
C40_FailedSetOnFreshRun ==
    /\ pc # "new" => failed # Unset
    /\ pc = "init" /\ dump_folder = {} => failed = {}
    /\ request.fail => request.url \in failed /\ pc # "raised"

\* C32: the crawl is done only when get_next_url has returned no URL; it
\* then writes the final checkpoint marking the run finished, and after
\* that the reconciliation of the external links has run
C32_DoneProtocol ==
    /\ pc \in {"done", "finished"} => next_url = None
    /\ pc = "finished" =>
          /\ \E d \in dump_folder :
                /\ d.file = FinishedFile(cache.current_index)
                /\ d.reason = "archiving_finished"
          /\ last.op = "relink_temporary_links"

\* the checkpoints of the dump folder that do not belong to a finished run
Unfinished(folder) == {d \in folder : d.file.kind # "MILESTONE_FINISHED"}

\* C33: an archiver constructed with reloading enabled restores its cache
\* from the most recently written checkpoint of the unfinished run, the one
\* no other available checkpoint is ahead of, and never from the checkpoint
\* of a finished run; when there is no checkpoint it starts at the base URL
C33_CheckpointSelection ==
    [][Constructed /\ process'.reload_last_state
       => IF Unfinished(dump_folder) = {}
          THEN cache' = NewCache
          ELSE \E d \in Unfinished(dump_folder) :
                  /\ cache' = d.cache
                  /\ \A e \in Unfinished(dump_folder) :
                        e.cache.current_index <= d.cache.current_index]_vars

\* C35: a checkpoint written by create_state_dump holds the complete failed
\* set of the archiver that wrote it, and loading it gives the current URL,
\* the last URL, the page counter, the last milestone and the failed set
\* that archiver had
C35_CheckpointRoundTrip ==
    [][/\ pc = "running" /\ pc' = "dumped" =>
             \E d \in dump_folder' :
                /\ SetOf(d.failed) = failed
                /\ Len(d.failed) = Cardinality(failed)
       /\ pc = "dumped" /\ pc' = "loaded" =>
             /\ cache'.current_url = cache.current_url
             /\ cache'.last_url = cache.last_url
             /\ cache'.current_index = cache.current_index
             /\ cache'.last_milestone = cache.last_milestone
             /\ failed' = failed]_vars

\* a checkpoint of a crawl that has counted pages and failed on two URLs has
\* been loaded
C35_Witness ==
    /\ pc = "loaded"
    /\ Cardinality(failed) = 2
    /\ cache.current_url # None
    /\ cache.current_index > 0
    /\ cache.last_milestone = milestones

\* the periodic checkpoints of the dump folder
Periodic(folder) == {d \in folder : d.reason = "archiving_milestone"}

\* C31: a periodic checkpoint records a page counter that is a multiple of
\* milestones, there is exactly one for a counter value, and the one rotated
\* out of the latest slot is filed under the counter value it was taken at;
\* when the crawl has passed a non-zero multiple the checkpoint of it exists
C31_MilestoneCheckpoints ==
    /\ \A d \in Periodic(dump_folder) :
          /\ d.cache.current_index % milestones = 0
          /\ d.file.kind = "MILESTONE" => d.file.index = d.cache.current_index
          /\ \A e \in Periodic(dump_folder) :
                e.cache.current_index = d.cache.current_index => e = d
    /\ failed # Unset /\ cache.current_index > milestones =>
          \E d \in Periodic(dump_folder) : d.cache.current_index = milestones

\* the page of the URL is registered with all the links the site gives it:
\* a PageLink row for every page link of an allowed host, and an AssetLink
\* row for every asset link
LinksRegistered(u) ==
    /\ \E i \in DOMAIN pages : pages[i].page_url = u /\ pages[i].inactive = ""
    /\ \A t \in web.pages[u].pages :
          Allowed(t) => \E i \in DOMAIN page_network :
                           /\ page_network[i].source_page_url = u
                           /\ page_network[i].target_page_url = t
    /\ \A a \in web.pages[u].assets :
          \E i \in DOMAIN asset_network :
             /\ asset_network[i].source_page_url = u
             /\ asset_network[i].target_asset_url = a

\* C34: a checkpoint is never ahead of the stored graph: the pages its page
\* counter counts have been registered with their content, and the page of
\* the current URL it records is registered with all its links
C34_CheckpointsNotAhead ==
    \A d \in dump_folder :
       /\ d.cache.current_index <= Len(raw_pages)
       /\ d.cache.current_url # None => LinksRegistered(d.cache.current_url)

\* C36: a store call is one transaction: the tables after a step of
\* register_page, register_asset or the reconciliation are those before the
\* call or those after the whole call, and those before it when the call
\* raised
C36_AtomicOperations ==
    [][/\ last'.op = "register_page" =>
             Database' \in {Database,
                            register_page(Database, last'.url, last'.snapshot[1],
                                          last'.snapshot[2])}
       /\ last'.op = "register_asset" =>
             IF last'.raised THEN Database' = Database
             ELSE Database' \in
                     {Database} \cup
                     {register_asset(Database, last'.source, last'.url, type,
                                     last'.snapshot[1], "utf-8", ".png",
                                     last'.snapshot[2]) : type \in AssetTypes}
       /\ last'.op = "relink_temporary_links" =>
             Database' \in {Database, relink_temporary_links(Database)}]_vars

\* the pages of an allowed host that the links of the site lead to from the
\* base URL
RECURSIVE ReachableAllowed(_)
ReachableAllowed(S) ==
    LET T == S \cup UNION {{t \in web.pages[u].pages \cap PageUrls : Allowed(t)} :
                              u \in S}
    IN  IF T = S THEN S ELSE ReachableAllowed(T)

\* C37: a process terminated at any point, also inside a page, loses no
\* progress of the frontier: when a restarted crawl of a store that was new
\* to the first process ends, every page whose processing was interrupted
\* has been processed again, and every reachable page of an allowed host is
\* registered with all its links
C37_CrashSafety ==
    pc \in {"done", "finished"} /\ process.restarts > 0 /\ process.fresh
    => /\ process.interrupted = {}
       /\ \A u \in ReachableAllowed({base_url}) : LinksRegistered(u)

\* a crawl that was terminated inside the page u1, which has more than one
\* link, has been restarted and has run to its end, having processed that
\* page again
C37_Witness ==
    /\ pc = "done"
    /\ process.fresh
    /\ process.restarts > 0
    /\ "u1" \in process.resumed
    /\ Cardinality(web.pages["u1"].pages) + Cardinality(web.pages["u1"].assets) > 1
    /\ LinksRegistered("u1")

\* no PageLink row is left to be followed
NoPending == \A i \in DOMAIN page_network : page_network[i].followed

\* C38: the crawl of a finite site whose requests are all answered ends:
\* get_next_url returns no URL after finitely many requests, the final
\* checkpoint is written, and no PageLink is then left with followed = false
C38_CrawlTermination ==
    <>(/\ pc = "finished"
       /\ next_url = None
       /\ \E d \in dump_folder : d.reason = "archiving_finished" /\ d.cache = cache
       /\ NoPending)

\* what does hold: the crawl ends that way unless it raises for want of the
\* failed set
TerminatesWithFailedSet ==
    <>(\/ pc = "finished" /\ next_url = None /\ NoPending
       \/ pc = "raised" /\ failed = Unset)

C39_LoopProtocolWithScheme ==
    [][pc = "advance" /\ pc' # "advance" /\ next_url \notin SchemelessUrls
       => /\ last'.op = "get_next_url"
          /\ last'.url = next_url
          /\ \A i \in DOMAIN page_network :
                ~page_network[i].followed
                /\ page_network[i].target_page_url = next_url
                => i \in last'.flipped]_vars

\* a URL without a scheme has been repaired, requested and handled
C39_Repaired ==
    /\ pc = "advance"
    /\ next_url \in SchemelessUrls
    /\ cache.current_url = fix_link(cache.last_url, next_url).url
    /\ request.attempts = <<"MissingSchema", "200">>

====
